---- MODULE Spec2Model ----
(***************************************************************************)
(* Model of the CSV report generator (src/main.py): the record loader      *)
(* (read_and_validate_file, form_records), the two report generators and   *)
(* the driver main().  Text is a sequence of one-character strings, so     *)
(* that strip, split and float act on what the file really holds.          *)
(*                                                                         *)
(* A Python float is modelled as a record [k, s, m]: k is "fin", "inf" or  *)
(* "nan", s the sign (1 or -1) and m the magnitude in quarters (m = 6 is   *)
(* 1.5).  Every literal of the modelled input files has a fraction of .0   *)
(* or .5, so parsing, products and sums of the enumerated inputs are       *)
(* exact in this representation, as they are in binary floating point.     *)
(***************************************************************************)
EXTENDS Integers, Sequences, FiniteSets, TLC

VARIABLES files, report, rate_order, pc, i, records, all_records, e,
          stdout, stderr, exit_code, run, prev_stdout

vars == <<files, report, rate_order, pc, i, records, all_records, e,
          stdout, stderr, exit_code, run, prev_stdout>>

-----------------------------------------------------------------------------
(* Text: str.strip, str.split, file.readlines, format padding.             *)

Whitespace == {" ", "\n", "\t"}

Digit == {"0", "1", "2", "3", "4", "5", "6", "7", "8", "9"}

DigitChars == <<"0", "1", "2", "3", "4", "5", "6", "7", "8", "9">>

DigitVal(c) == (CHOOSE d \in 1..Len(DigitChars) : DigitChars[d] = c) - 1

RECURSIVE lstrip(_)
lstrip(s) == IF s # <<>> /\ Head(s) \in Whitespace THEN lstrip(Tail(s)) ELSE s

RECURSIVE rstrip(_)
rstrip(s) ==
  IF s # <<>> /\ s[Len(s)] \in Whitespace
  THEN rstrip(SubSeq(s, 1, Len(s) - 1))
  ELSE s

strip(s) == rstrip(lstrip(s))

\* index of the first occurrence of character c in s, 0 when there is none
Find(s, c) ==
  IF \E k \in 1..Len(s) : s[k] = c
  THEN CHOOSE k \in 1..Len(s) : s[k] = c /\ \A j \in 1..(k - 1) : s[j] # c
  ELSE 0

RECURSIVE split(_, _)
split(s, sep) ==
  LET k == Find(s, sep)
  IN  IF k = 0
      THEN <<s>>
      ELSE <<SubSeq(s, 1, k - 1)>> \o split(SubSeq(s, k + 1, Len(s)), sep)

\* f.readlines(): every line keeps its terminating "\n"
RECURSIVE readlines(_)
readlines(c) ==
  LET k == Find(c, "\n")
  IN  IF c = <<>> THEN <<>>
      ELSE IF k = 0 THEN <<c>>
      ELSE <<SubSeq(c, 1, k)>> \o readlines(SubSeq(c, k + 1, Len(c)))

RECURSIVE Repeat(_, _)
Repeat(c, n) == IF n <= 0 THEN <<>> ELSE <<c>> \o Repeat(c, n - 1)

\* f"{v:<w}": left-aligned, padded with spaces to w, never truncated
ljust(v, w) == v \o Repeat(" ", w - Len(v))

RECURSIVE DecVal(_)
DecVal(t) ==
  IF t = <<>> THEN 0
  ELSE 10 * DecVal(SubSeq(t, 1, Len(t) - 1)) + DigitVal(t[Len(t)])

RECURSIVE Pow10(_)
Pow10(n) == IF n = 0 THEN 1 ELSE 10 * Pow10(n - 1)

\* str(n) of an int n >= 0
RECURSIVE Digits(_)
Digits(n) ==
  IF n < 10 THEN <<DigitChars[n + 1]>>
  ELSE Digits(n \div 10) \o <<DigitChars[(n % 10) + 1]>>

Max(a, b) == IF a >= b THEN a ELSE b

-----------------------------------------------------------------------------
(* Floats: float(str), comparison with 0, *, +, and the three renderings   *)
(* the reports use (str, :.0f, :.2f) plus int().                           *)

NaN == [k |-> "nan", s |-> 1, m |-> 0]

Inf(sg) == [k |-> "inf", s |-> sg, m |-> 0]

Fin(sg, mag) == [k |-> "fin", s |-> sg, m |-> mag]

ValueError == [k |-> "ValueError", s |-> 1, m |-> 0]

AllDigits(t) == \A k \in 1..Len(t) : t[k] \in Digit

\* float(x) for the literals of the modelled alphabet: an optional sign, then
\* nan, inf, or decimal digits with an optional fraction; anything else raises
float(x) ==
  LET t      == strip(x)
      signed == t # <<>> /\ Head(t) \in {"-", "+"}
      sg     == IF t # <<>> /\ Head(t) = "-" THEN -1 ELSE 1
      u      == IF signed THEN Tail(t) ELSE t
      p      == split(u, ".")
  IN  IF u = <<"n", "a", "n">> THEN NaN
      ELSE IF u = <<"i", "n", "f">> THEN Inf(sg)
      ELSE IF Len(p) = 1 /\ u # <<>> /\ AllDigits(u)
        THEN Fin(sg, 4 * DecVal(u))
      ELSE IF /\ Len(p) = 2
              /\ p[1] \o p[2] # <<>>
              /\ AllDigits(p[1])
              /\ AllDigits(p[2])
        THEN Fin(sg, 4 * DecVal(p[1]) + (4 * DecVal(p[2])) \div Pow10(Len(p[2])))
      ELSE ValueError

\* x < 0
Lt0(x) ==
  CASE x.k = "nan" -> FALSE
    [] x.k = "inf" -> x.s = -1
    [] OTHER       -> x.s = -1 /\ x.m > 0

\* x >= 0
Ge0(x) ==
  CASE x.k = "nan" -> FALSE
    [] x.k = "inf" -> x.s = 1
    [] OTHER       -> x.s = 1 \/ x.m = 0

\* x == y
FloatEq(x, y) ==
  CASE x.k = "nan" \/ y.k = "nan" -> FALSE
    [] x.k = "inf" \/ y.k = "inf" -> x.k = y.k /\ x.s = y.s
    [] OTHER -> x.m = y.m /\ (x.s = y.s \/ x.m = 0)

\* x * y
Mul(x, y) ==
  CASE x.k = "nan" \/ y.k = "nan" -> NaN
    [] x.k = "inf" /\ y.k = "inf" -> Inf(x.s * y.s)
    [] x.k = "inf" -> IF y.m = 0 THEN NaN ELSE Inf(x.s * y.s)
    [] y.k = "inf" -> IF x.m = 0 THEN NaN ELSE Inf(x.s * y.s)
    [] OTHER -> Fin(x.s * y.s, (x.m * y.m) \div 4)

\* x + y
Add(x, y) ==
  CASE x.k = "nan" \/ y.k = "nan" -> NaN
    [] x.k = "inf" /\ y.k = "inf" -> IF x.s = y.s THEN x ELSE NaN
    [] x.k = "inf" -> x
    [] y.k = "inf" -> y
    [] OTHER ->
         LET t == x.s * x.m + y.s * y.m
         IN  IF t < 0 THEN Fin(-1, -t)
             ELSE IF t = 0 /\ x.s = -1 /\ y.s = -1 THEN Fin(-1, 0)
             ELSE Fin(1, t)

Sign(x) == IF x.s = -1 THEN <<"-">> ELSE <<>>

Special(x) == Sign(x) \o (IF x.k = "nan" THEN <<"n", "a", "n">> ELSE <<"i", "n", "f">>)

\* str(x) of a float, as f"{x}" prints it
FloatStr(x) ==
  IF x.k = "nan" THEN <<"n", "a", "n">>
  ELSE IF x.k = "inf" THEN Special(x)
  ELSE Sign(x) \o Digits(x.m \div 4) \o <<".">> \o
       (CASE x.m % 4 = 0 -> <<"0">>
          [] x.m % 4 = 1 -> <<"2", "5">>
          [] x.m % 4 = 2 -> <<"5">>
          [] OTHER       -> <<"7", "5">>)

\* round-half-even of num/den for num >= 0, den > 0
RoundHalfEven(num, den) ==
  LET q == num \div den
      r == num % den
  IN  IF 2 * r > den \/ (2 * r = den /\ q % 2 = 1) THEN q + 1 ELSE q

\* f"{x:.0f}"
Fmt0(x) ==
  IF x.k = "nan" THEN <<"n", "a", "n">>
  ELSE IF x.k = "inf" THEN Special(x)
  ELSE Sign(x) \o Digits(RoundHalfEven(x.m, 4))

\* f"{x / n:.2f}" for a float x and an int n > 0
Fmt2(x, n) ==
  IF x.k = "nan" THEN <<"n", "a", "n">>
  ELSE IF x.k = "inf" THEN Special(x)
  ELSE LET h == RoundHalfEven(100 * x.m, 4 * n)
           c == h % 100
       IN  Sign(x) \o Digits(h \div 100) \o <<".">> \o
           <<DigitChars[(c \div 10) + 1], DigitChars[(c % 10) + 1]>>

\* f"${int(x)}": int() truncates, and raises on nan (ValueError) and on an
\* infinity (OverflowError)
IntRaises(x) == x.k # "fin"

Dollar(x) ==
  <<"$">> \o (IF x.s = -1 /\ x.m \div 4 > 0 THEN <<"-">> ELSE <<>>) \o
  Digits(x.m \div 4)

-----------------------------------------------------------------------------
(* Constants of main.py, and the rows the loader builds.                   *)

col_id == <<"i", "d">>

col_email == <<"e", "m", "a", "i", "l">>

col_name == <<"n", "a", "m", "e">>

col_department == <<"d", "e", "p", "a", "r", "t", "m", "e", "n", "t">>

col_hours_worked == <<"h", "o", "u", "r", "s", "_", "w", "o", "r", "k", "e", "d">>

col_hourly_rate == <<"h", "o", "u", "r", "l", "y", "_", "r", "a", "t", "e">>

col_rate == <<"r", "a", "t", "e">>

col_salary == <<"s", "a", "l", "a", "r", "y">>

REQUIRED_COLUMNS == <<col_id, col_email, col_name, col_department, col_hours_worked>>

RATE_COLUMNS == {col_hourly_rate, col_rate, col_salary}

CSV_SEPARATOR == ","

Range(q) == {q[k] : k \in 1..Len(q)}

\* The orders in which iterating the set RATE_COLUMNS can yield its members:
\* a set of str iterates in hash order, and str hashes are salted per process.
IterationOrders ==
  {o \in [1..Cardinality(RATE_COLUMNS) -> RATE_COLUMNS] : Range(o) = RATE_COLUMNS}

\* one print() call: the call site, and the values formatted into the text
Line(site, n, file, msg, text) ==
  [site |-> site, n |-> n, file |-> file, msg |-> msg, text |-> text]

\* dict(zip(header, parts)): the last of several equal column names wins
zipdict(header, parts) ==
  LET len == IF Len(header) <= Len(parts) THEN Len(header) ELSE Len(parts)
  IN  [c \in {header[k] : k \in 1..len} |->
         parts[CHOOSE k \in 1..len :
                 header[k] = c /\ \A j \in (k + 1)..len : header[j] # c]]

\* form_records from row k on; row k carries line_number k + 1 (enumerate(rows, 2))
RECURSIVE form_records_from(_, _, _)
form_records_from(rows, rate_column, k) ==
  IF k > Len(rows) THEN [records |-> <<>>, out |-> <<>>]
  ELSE
    LET parts    == rows[k]
        rest     == form_records_from(rows, rate_column, k + 1)
        KeyError == ~({col_name, col_department, col_hours_worked, rate_column}
                        \subseteq DOMAIN parts)
        name       == strip(parts[col_name])
        department == strip(parts[col_department])
        hours      == float(parts[col_hours_worked])
        rate       == float(parts[rate_column])
    IN  IF KeyError \/ hours = ValueError \/ rate = ValueError
        THEN [records |-> rest.records,
              out |-> <<Line("bad_row", k + 1, "", "", <<>>)>> \o rest.out]
        ELSE IF name = <<>> \/ department = <<>> \/ Lt0(hours) \/ Lt0(rate)
        THEN rest
        ELSE [records |->
                <<[name |-> name, department |-> department, hours |-> hours,
                   rate |-> rate, payout |-> Mul(hours, rate)]>> \o rest.records,
              out |-> rest.out]

form_records(rows, rate_column) == form_records_from(rows, rate_column, 1)

\* next((col for col in valid_rate_keys if col in header), None); None is <<>>
next_rate_column(valid_rate_keys, header) ==
  IF \E k \in 1..Len(valid_rate_keys) : valid_rate_keys[k] \in Range(header)
  THEN valid_rate_keys[CHOOSE k \in 1..Len(valid_rate_keys) :
         /\ valid_rate_keys[k] \in Range(header)
         /\ \A j \in 1..(k - 1) : valid_rate_keys[j] \notin Range(header)]
  ELSE <<>>

\* mapped_rows_from with "break" in place of "continue": the loop ends at the
\* first line whose field count differs
RECURSIVE mapped_rows_break(_, _, _, _)
mapped_rows_break(lines, header, filepath, k) ==
  IF k > Len(lines) THEN [rows |-> <<>>, out |-> <<>>]
  ELSE
    LET parts == split(strip(lines[k]), CSV_SEPARATOR)
        rest  == mapped_rows_break(lines, header, filepath, k + 1)
    IN  IF Len(parts) # Len(header)
        THEN [rows |-> <<>>, out |-> <<Line("skip_row", k, filepath, "", <<>>)>>]
        ELSE [rows |-> <<zipdict(header, parts)>> \o rest.rows, out |-> rest.out]

\* the loop over lines[1:]: the rows kept, and the diagnostics printed
RECURSIVE mapped_rows_from(_, _, _, _)
mapped_rows_from(lines, header, filepath, k) ==
  IF k > Len(lines) THEN [rows |-> <<>>, out |-> <<>>]
  ELSE
    LET parts == split(strip(lines[k]), CSV_SEPARATOR)
        rest  == mapped_rows_from(lines, header, filepath, k + 1)
    IN  IF Len(parts) # Len(header)
        THEN [rows |-> rest.rows,
              out |-> <<Line("skip_row", k, filepath, "", <<>>)>> \o rest.out]
        ELSE [rows |-> <<zipdict(header, parts)>> \o rest.rows, out |-> rest.out]

-----------------------------------------------------------------------------
(* The input files.  CsvLine joins fields with the separator and ends the  *)
(* line; a file is the concatenation of its lines.                         *)

RECURSIVE Join(_, _)
Join(fields, sep) ==
  IF Len(fields) = 0 THEN <<>>
  ELSE IF Len(fields) = 1 THEN fields[1]
  ELSE fields[1] \o <<sep>> \o Join(Tail(fields), sep)

CsvLine(fields) == Join(fields, ",") \o <<"\n">>

HdrRate == CsvLine(REQUIRED_COLUMNS \o <<col_rate>>)

HdrBoth == CsvLine(REQUIRED_COLUMNS \o <<col_rate, col_salary>>)

HdrHourly ==
  CsvLine(<<col_name, col_id, col_email, col_department, col_hourly_rate,
            col_hours_worked>>)

HdrNoRate == CsvLine(REQUIRED_COLUMNS)

HdrNoDept == CsvLine(<<col_id, col_email, col_name, col_hours_worked, col_rate>>)

RowAl == CsvLine(<<<<"1">>, <<"a">>, <<"A", "l">>, <<"H", "R">>, <<"4", "0">>, <<"5", "0">>>>)

RowBo == CsvLine(<<<<"2">>, <<"b">>, <<"B", "o">>, <<"H", "R">>, <<"3", "5">>, <<"6", "0">>>>)

RowCy == CsvLine(<<<<"3">>, <<"c">>, <<"C", "y">>, <<"I", "T">>, <<"3", "8">>, <<"7", "0">>>>)

\* the rate field is missing
RowShort == CsvLine(<<<<"4">>, <<"d">>, <<"D", "i">>, <<"H", "R">>, <<"4", "0">>>>)

RowNeg == CsvLine(<<<<"5">>, <<"e">>, <<"E", "d">>, <<"H", "R">>, <<"-", "5">>, <<"5", "0">>>>)

RowNaN == CsvLine(<<<<"6">>, <<"f">>, <<"F", "y">>, <<"I", "T">>, <<"4", "0">>, <<"n", "a", "n">>>>)

RowBad == CsvLine(<<<<"7">>, <<"g">>, <<"G", "i">>, <<"H", "R">>, <<"a", "b", "c">>, <<"5", "0">>>>)

RowNoName == CsvLine(<<<<"8">>, <<"h">>, <<" ">>, <<"H", "R">>, <<"4", "0">>, <<"5", "0">>>>)

RowBig ==
  CsvLine(<<<<"9">>, <<"i">>, <<"I", "g">>, <<"I", "T">>, <<"1", "0", "0", "0">>,
            <<"1", "0", "0", "0", "0", "0">>>>)

RowHalf == CsvLine(<<<<"1", "0">>, <<"j">>, <<"J", "o">>, <<"I", "T">>, <<"0", ".", "5">>, <<"2", ".", "5">>>>)

\* the last line of a file, without a line end
RowLast == Join(<<<<"1", "1">>, <<"k">>, <<"K", "o">>, <<"I", "T">>, <<"3", "5">>, <<"5", "5">>>>, ",")

RowBoth ==
  CsvLine(<<<<"1", "2">>, <<"l">>, <<"L", "u">>, <<"H", "R">>, <<"4", "0">>, <<"5", "0">>,
            <<"7", "0">>>>)

RowHourly ==
  CsvLine(<<<<"M", "o">>, <<"1", "3">>, <<"m">>, <<"I", "T">>, <<"2", "0", ".", "5">>,
            <<"1", "0">>>>)

RowNoDept == CsvLine(<<<<"1", "5">>, <<"o">>, <<"O", "z">>, <<"4", "0">>, <<"5", "0">>>>)

Existing(content) == [exists |-> TRUE, content |-> content]

\* the file system: what os.path.exists and open().readlines() see at each path
FS ==
  [missing  |-> [exists |-> FALSE, content |-> <<>>],
   empty    |-> Existing(<<>>),
   header   |-> Existing(HdrRate),
   ok       |-> Existing(HdrRate \o RowAl \o RowCy \o RowBo),
   mismatch |-> Existing(HdrRate \o RowShort \o RowLast),
   shift    |-> Existing(HdrRate \o RowShort \o RowBad \o RowBo),
   invalid  |-> Existing(HdrRate \o RowNeg \o RowNoName \o RowHalf),
   nan      |-> Existing(HdrRate \o RowAl \o RowNaN),
   big      |-> Existing(HdrRate \o RowBig),
   both     |-> Existing(HdrBoth \o RowBoth),
   hourly   |-> Existing(HdrHourly \o RowHourly),
   norate   |-> Existing(HdrNoRate \o RowShort),
   nodept   |-> Existing(HdrNoDept \o RowNoDept)]

Paths == DOMAIN FS

-----------------------------------------------------------------------------
(* read_and_validate_file.  valid_rate_keys is the set RATE_COLUMNS in the *)
(* order its iteration yields.  The result names the exception raised      *)
(* ("None" when the call returns), the records returned and what was       *)
(* printed.                                                                *)

Raise(exc) == [raised |-> exc, records |-> <<>>, out |-> <<>>]

\* the body of read_and_validate_file once the lines are read
validate_lines(lines, filepath, valid_rate_keys) ==
  IF lines = <<>> THEN [raised |-> "None", records |-> <<>>, out |-> <<>>]
  ELSE
    LET header      == split(strip(lines[1]), CSV_SEPARATOR)
        rate_column == next_rate_column(valid_rate_keys, header)
        mapped      == mapped_rows_from(lines, header, filepath, 2)
        formed      == form_records(mapped.rows, rate_column)
    IN  IF \E k \in 1..Len(REQUIRED_COLUMNS) :
             REQUIRED_COLUMNS[k] \notin Range(header)
        THEN Raise("ValueError: required column")
        ELSE IF rate_column = <<>>
        THEN Raise("ValueError: rate column")
        ELSE [raised |-> "None", records |-> formed.records,
              out |-> mapped.out \o formed.out]

read_and_validate_file(filepath, valid_rate_keys) ==
  IF ~FS[filepath].exists THEN Raise("FileNotFoundError")
  ELSE validate_lines(readlines(FS[filepath].content), filepath, valid_rate_keys)

-----------------------------------------------------------------------------
(* The report generators.  Each yields the lines it prints, one per        *)
(* print() call, and the exception that ended it early ("None" otherwise). *)

\* the keys of the defaultdict in insertion order: departments as first seen
RECURSIVE grouped_keys(_)
grouped_keys(recs) ==
  IF recs = <<>> THEN <<>>
  ELSE LET front == grouped_keys(SubSeq(recs, 1, Len(recs) - 1))
           dept  == recs[Len(recs)].department
       IN  IF dept \in Range(front) THEN front ELSE Append(front, dept)

SameDept(dept, r) == r.department = dept

grouped(recs, dept) == SelectSeq(recs, LAMBDA r : SameDept(dept, r))

columns == <<"name", "hours", "rate", "payout">>

ColumnText(col) ==
  CASE col = "name"   -> col_name
    [] col = "hours"  -> <<"h", "o", "u", "r", "s">>
    [] col = "rate"   -> col_rate
    [] OTHER          -> <<"p", "a", "y", "o", "u", "t">>

\* the string whose length enters the width: .0f for a float, str otherwise
WidthText(r, col) == IF col = "name" THEN r.name ELSE Fmt0(r[col])

RECURSIVE MaxWidth(_, _, _)
MaxWidth(recs, col, k) ==
  IF k > Len(recs) THEN Len(ColumnText(col))
  ELSE Max(Len(WidthText(recs[k], col)), MaxWidth(recs, col, k + 1))

col_widths(recs) == [col \in Range(columns) |-> MaxWidth(recs, col, 1)]

\* the value printed in a data cell
CellText(r, col) ==
  IF col = "payout" THEN Dollar(r.payout)
  ELSE IF col = "name" THEN r.name
  ELSE FloatStr(r[col])

TableLine(cells) == Join(cells, "\t")

header_line(w) == TableLine([c \in 1..Len(columns) |-> ljust(ColumnText(columns[c]), w[columns[c]])])

dash_line(w) == TableLine([c \in 1..Len(columns) |-> Repeat("-", w[columns[c]])])

row_line(r, w) == TableLine([c \in 1..Len(columns) |-> ljust(CellText(r, columns[c]), w[columns[c]])])

\* the data rows of one block from record k on, up to a row that raises
RECURSIVE payout_rows(_, _, _)
payout_rows(recs, w, k) ==
  IF k > Len(recs) THEN [out |-> <<>>, raised |-> "None"]
  ELSE IF IntRaises(recs[k].payout)
  THEN [out |-> <<>>,
        raised |-> IF recs[k].payout.k = "nan" THEN "ValueError" ELSE "OverflowError"]
  ELSE LET rest == payout_rows(recs, w, k + 1)
       IN  [out |-> <<Line("payout_row", 0, "", "", row_line(recs[k], w))>> \o rest.out,
            raised |-> rest.raised]

payout_block(dept, recs) ==
  LET w    == col_widths(recs)
      rows == payout_rows(recs, w, 1)
  IN  [out |-> <<Line("payout_dept", 0, "", "", <<"\n">> \o dept),
                 Line("payout_header", 0, "", "", header_line(w)),
                 Line("payout_dashes", 0, "", "", dash_line(w))>> \o rows.out,
       raised |-> rows.raised]

RECURSIVE payout_blocks(_, _, _)
payout_blocks(recs, keys, k) ==
  IF k > Len(keys) THEN [out |-> <<>>, raised |-> "None"]
  ELSE LET b == payout_block(keys[k], grouped(recs, keys[k]))
       IN  IF b.raised # "None" THEN b
           ELSE LET rest == payout_blocks(recs, keys, k + 1)
                IN  [out |-> b.out \o rest.out, raised |-> rest.raised]

generate_payout_report(recs) == payout_blocks(recs, grouped_keys(recs), 1)

\* sum(rates): the int 0 plus each rate in turn
RECURSIVE sum(_)
sum(rates) ==
  IF rates = <<>> THEN Fin(1, 0)
  ELSE Add(sum(SubSeq(rates, 1, Len(rates) - 1)), rates[Len(rates)])

rate_data(recs, dept) ==
  LET g == grouped(recs, dept) IN [k \in 1..Len(g) |-> g[k].rate]

MeanHeader ==
  <<"\n", "D", "e", "p", "a", "r", "t", "m", "e", "n", "t", "\t", "M", "e", "a", "n",
    " ", "R", "a", "t", "e">>

MeanDashes == Repeat("-", 10) \o <<"\t">> \o Repeat("-", 9)

mean_row(recs, dept) ==
  LET rates == rate_data(recs, dept)
  IN  ljust(dept, 10) \o <<"\t">> \o Fmt2(sum(rates), Len(rates))

generate_mean_rate_report(recs) ==
  LET keys == grouped_keys(recs)
  IN  [out |-> <<Line("mean_header", 0, "", "", MeanHeader),
                 Line("mean_dashes", 0, "", "", MeanDashes)>> \o
               [k \in 1..Len(keys) |-> Line("mean_row", 0, "", "", mean_row(recs, keys[k]))],
       raised |-> "None"]

-----------------------------------------------------------------------------
(* main(): one process run.  pc is the position in main: "args" before     *)
(* parse_arguments, "files" inside the loop over args.files, "report" at   *)
(* the dispatch on args.report, "done" after a normal return and "exited"  *)
(* after SystemExit or an uncaught exception.                              *)

MaxFiles == 2

ReportChoices == {"payout", "mean_rate_department"}

ReportArgs == ReportChoices \cup {"unsupported"}

FileArgs == UNION {[1..n -> Paths] : n \in 1..MaxFiles}

Init ==
  /\ files \in FileArgs
  /\ report \in ReportArgs
  /\ rate_order \in IterationOrders
  /\ pc = "args"
  /\ i = 1
  /\ records = <<>>
  /\ all_records = <<>>
  /\ e = "None"
  /\ stdout = <<>>
  /\ stderr = <<>>
  /\ exit_code = 0
  /\ run = 1
  /\ prev_stdout = <<>>

\* parse_arguments(): argparse rejects a --report outside its choices with
\* "invalid choice" on stderr and SystemExit(2)
parse_arguments ==
  /\ pc = "args"
  /\ IF report \in ReportChoices
     THEN /\ pc' = "files"
          /\ UNCHANGED <<stderr, exit_code>>
     ELSE /\ pc' = "exited"
          /\ stderr' = Append(stderr, Line("argparse_error", 0, "", "invalid choice", <<>>))
          /\ exit_code' = 2
  /\ UNCHANGED <<files, report, rate_order, i, records, all_records, e, stdout,
                 run, prev_stdout>>

\* LoadFile without the try block: the loader's exception leaves main
LoadFileUncaught ==
  /\ pc = "files"
  /\ i <= Len(files)
  /\ LET r == read_and_validate_file(files[i], rate_order)
     IN  /\ stdout' = stdout \o r.out
         /\ e' = r.raised
         /\ IF r.raised = "None"
            THEN /\ records' = r.records
                 /\ all_records' = all_records \o r.records
                 /\ pc' = IF i = Len(files) THEN "report" ELSE "files"
                 /\ i' = i + 1
                 /\ UNCHANGED <<stderr, exit_code>>
            ELSE /\ stderr' = Append(stderr, Line("traceback", 0, "", r.raised, <<>>))
                 /\ exit_code' = 1
                 /\ pc' = "exited"
                 /\ UNCHANGED <<records, all_records, i>>
  /\ UNCHANGED <<files, report, rate_order, run, prev_stdout>>

\* one iteration of the loop over args.files: the try block and its handler
LoadFile ==
  /\ pc = "files"
  /\ i <= Len(files)
  /\ LET r == read_and_validate_file(files[i], rate_order)
     IN  /\ stdout' = stdout \o r.out
         /\ e' = r.raised
         /\ IF r.raised = "None"
            THEN /\ records' = r.records
                 /\ all_records' = all_records \o r.records
                 /\ UNCHANGED stderr
            ELSE /\ stderr' = Append(stderr, Line("file_error", 0, files[i], r.raised, <<>>))
                 /\ UNCHANGED <<records, all_records>>
  /\ i' = i + 1
  /\ pc' = IF i = Len(files) THEN "report" ELSE "files"
  /\ UNCHANGED <<files, report, rate_order, exit_code, run, prev_stdout>>

\* the dispatch on args.report, and the end of the process
GenerateReport ==
  /\ pc = "report"
  /\ LET g == CASE report = "payout" -> generate_payout_report(all_records)
                [] report = "mean_rate_department" -> generate_mean_rate_report(all_records)
                [] OTHER -> [out |-> <<>>, raised |-> "SystemExit"]
     IN  /\ stdout' = stdout \o g.out
         /\ stderr' =
              CASE g.raised = "None" -> stderr
                [] g.raised = "SystemExit" ->
                     Append(stderr, Line("not_implemented", 0, "", "report type not implemented", <<>>))
                [] OTHER -> Append(stderr, Line("traceback", 0, "", g.raised, <<>>))
         /\ exit_code' = IF g.raised = "None" THEN 0 ELSE 1
         /\ pc' = IF g.raised = "None" THEN "done" ELSE "exited"
  /\ UNCHANGED <<files, report, rate_order, i, records, all_records, e, run, prev_stdout>>

\* the same command line run again: a new process, with its own hash salt
RunAgain ==
  /\ pc \in {"done", "exited"}
  /\ run = 1
  /\ run' = 2
  /\ prev_stdout' = stdout
  /\ rate_order' \in IterationOrders
  /\ pc' = "args"
  /\ i' = 1
  /\ records' = <<>>
  /\ all_records' = <<>>
  /\ e' = "None"
  /\ stdout' = <<>>
  /\ stderr' = <<>>
  /\ exit_code' = 0
  /\ UNCHANGED <<files, report>>

Next == parse_arguments \/ LoadFile \/ GenerateReport

Spec == Init /\ [][Next]_vars

NextTwoRuns == Next \/ RunAgain

SpecTwoRuns == Init /\ [][NextTwoRuns]_vars

-----------------------------------------------------------------------------
(* What the claims speak of, stated on the files and on the output.        *)

\* the file argument the last loop iteration processed
LastFile == files[i - 1]

LinesOf(path) == readlines(FS[path].content)

\* the number of comma-separated fields of a line: its commas plus one
FieldCount(line) == Cardinality({k \in 1..Len(line) : line[k] = ","}) + 1

\* the header's column names, cut at the commas
HeaderOf(path) == split(strip(LinesOf(path)[1]), ",")

\* line k has another field count than the header, line 1
Mismatched(lines, k) == FieldCount(lines[k]) # FieldCount(lines[1])

\* a whole-file structural problem: no file, a required column or the rate
\* column absent from the header
StructuralError(path) ==
  \/ ~FS[path].exists
  \/ /\ FS[path].content # <<>>
     /\ LET header == Range(HeaderOf(path))
        IN  \/ ~(Range(REQUIRED_COLUMNS) \subseteq header)
            \/ header \cap RATE_COLUMNS = {}

\* a loop iteration has run, on a file with a header that passes the checks
LoadedWithHeader ==
  /\ i > 1
  /\ FS[LastFile].content # <<>>
  /\ ~StructuralError(LastFile)

Ended == pc \in {"done", "exited"}

Departments == {all_records[k].department : k \in 1..Len(all_records)}

FirstSeen(dept) ==
  CHOOSE k \in 1..Len(all_records) :
    /\ all_records[k].department = dept
    /\ \A j \in 1..(k - 1) : all_records[j].department # dept

OfDept(dept) == SelectSeq(all_records, LAMBDA r : r.department = dept)

\* C1: every record the loader returns has a non-empty name and department,
\* hours >= 0, rate >= 0 and payout == hours * rate.
ValidRecord(r) ==
  /\ r.name # <<>>
  /\ r.department # <<>>
  /\ Ge0(r.hours)
  /\ Ge0(r.rate)
  /\ FloatEq(r.payout, Mul(r.hours, r.rate))

C1_RecordsValid == \A k \in 1..Len(records) : ValidRecord(records[k])

\* the records of the data lines from line k on, each line loaded on its own
\* under the file's header, the lines of another field count left out
RECURSIVE LineByLine(_, _, _)
LineByLine(lines, path, k) ==
  IF k > Len(lines) THEN <<>>
  ELSE (IF Mismatched(lines, k) THEN <<>>
        ELSE validate_lines(<<lines[1], lines[k]>>, path, rate_order).records)
       \o LineByLine(lines, path, k + 1)

\* C2: the loader's result is exactly the records of the lines whose field
\* count equals the header's, in file order; a line of another field count
\* adds nothing and changes no other line's record.
C2_MismatchedLinesExcluded ==
  (LoadedWithHeader /\ e = "None") =>
    records = LineByLine(LinesOf(LastFile), LastFile, 2)

\* a line of another field count was followed by a line that gave a record
C2_Witness ==
  /\ LoadedWithHeader
  /\ e = "None"
  /\ records # <<>>
  /\ \E k \in 2..Len(LinesOf(LastFile)) :
       /\ Mismatched(LinesOf(LastFile), k)
       /\ \E j \in (k + 1)..Len(LinesOf(LastFile)) : ~Mismatched(LinesOf(LastFile), j)

\* the accepted rate column that comes first in header order
FirstRateInHeader(header) ==
  header[CHOOSE k \in 1..Len(header) :
           /\ header[k] \in RATE_COLUMNS
           /\ \A j \in 1..(k - 1) : header[j] \notin RATE_COLUMNS]

\* C3: of several accepted rate columns the loader uses the first in header
\* order, for every row; with none it fails with a schema error.
C3_FirstRateColumnInHeaderOrder ==
  (/\ i > 1
   /\ FS[LastFile].exists
   /\ LinesOf(LastFile) # <<>>
   /\ Range(REQUIRED_COLUMNS) \subseteq Range(HeaderOf(LastFile)))
  => IF Range(HeaderOf(LastFile)) \cap RATE_COLUMNS = {}
     THEN e = "ValueError: rate column"
     ELSE /\ e = "None"
          /\ records = validate_lines(LinesOf(LastFile), LastFile,
                                      <<FirstRateInHeader(HeaderOf(LastFile))>>).records

\* the records of the first k file arguments that load without a structural
\* error, in argument order
RECURSIVE Merged(_)
Merged(k) ==
  IF k = 0 THEN <<>>
  ELSE Merged(k - 1) \o
       (IF StructuralError(files[k]) THEN <<>>
        ELSE read_and_validate_file(files[k], rate_order).records)

ReportStarted ==
  IF report = "payout"
  THEN all_records # <<>> => \E k \in 1..Len(stdout) : stdout[k].site = "payout_dept"
  ELSE \E k \in 1..Len(stdout) : stdout[k].site = "mean_header"

\* C4: the merged list is the concatenation, in argument order, of the records
\* of the files that load without a structural error; a file that fails is
\* reported, adds nothing, and stops neither the later files nor the report.
C4_MergeSkipsFailedFiles ==
  /\ all_records = Merged(i - 1)
  /\ (i > 1 /\ pc \in {"files", "report"} /\ StructuralError(LastFile)) =>
       /\ e # "None"
       /\ stderr # <<>>
       /\ stderr[Len(stderr)].site = "file_error"
       /\ stderr[Len(stderr)].file = LastFile
  /\ pc = "report" => i = Len(files) + 1
  /\ (Ended /\ report \in ReportChoices) => (i = Len(files) + 1 /\ ReportStarted)

\* a file failed, a later file gave its records, and the report was generated
C4_Witness ==
  /\ Ended
  /\ report \in ReportChoices
  /\ all_records # <<>>
  /\ \E j \in 1..Len(files) :
       /\ StructuralError(files[j])
       /\ \E k \in (j + 1)..Len(files) :
            read_and_validate_file(files[k], rate_order).records # <<>>

ReportSites ==
  {"payout_dept", "payout_header", "payout_dashes", "payout_row",
   "mean_header", "mean_dashes", "mean_row"}

\* C5: a report kind outside the two supported ends the run with a non-zero
\* exit and the message "Unimplemented report" on standard error, and no
\* report line on standard output.
C5_UnknownReportMessage ==
  (Ended /\ report \notin ReportChoices) =>
    /\ exit_code # 0
    /\ \E k \in 1..Len(stderr) : stderr[k].msg = "Unimplemented report"
    /\ \A k \in 1..Len(stdout) : stdout[k].site \notin ReportSites

\* C6: two runs on the same files, in the same order, with the same report
\* kind print the same standard output.
C6_SameOutputOnRerun == (run = 2 /\ Ended) => stdout = prev_stdout


\* the lines the payout report printed
PayoutOut ==
  SelectSeq(stdout, LAMBDA l : l.site \in {"payout_dept", "payout_header",
                                           "payout_dashes", "payout_row"})

DeptLines == {k \in 1..Len(PayoutOut) : PayoutOut[k].site = "payout_dept"}

\* the department a block's first line names (the text after the line break)
DeptAt(k) == Tail(PayoutOut[k].text)

\* the lines of the block opened at k that follow its header and dashes
BlockRows(k) ==
  LET later == {j \in DeptLines : j > k}
      last  == IF later = {} THEN Len(PayoutOut)
               ELSE (CHOOSE j \in later : \A x \in later : j <= x) - 1
  IN  SubSeq(PayoutOut, k + 3, last)

Cells(l) == split(l.text, "\t")

\* C7: the payout report has one block per distinct department, in the order
\* the departments first occur, and in each block one row per record of the
\* department, in the order received.
C7_PayoutBlocksAndRows ==
  (Ended /\ report = "payout") =>
    /\ Cardinality(DeptLines) = Cardinality(Departments)
    /\ \A k \in DeptLines : DeptAt(k) \in Departments
    /\ \A k1, k2 \in DeptLines :
         k1 < k2 => FirstSeen(DeptAt(k1)) < FirstSeen(DeptAt(k2))
    /\ \A k \in DeptLines :
         LET rows == BlockRows(k)
             rs   == OfDept(DeptAt(k))
         IN  /\ Len(rows) = Len(rs)
             /\ \A j \in 1..Len(rows) :
                  /\ rows[j].site = "payout_row"
                  /\ strip(Cells(rows[j])[1]) = rs[j].name

MeanRows == SelectSeq(stdout, LAMBDA l : l.site = "mean_row")

\* digits, a point, two digits
TwoDecimals(t) ==
  /\ Len(t) >= 4
  /\ t[Len(t) - 2] = "."
  /\ AllDigits(SubSeq(t, 1, Len(t) - 3))
  /\ AllDigits(SubSeq(t, Len(t) - 1, Len(t)))

Hundredths(t) ==
  100 * DecVal(SubSeq(t, 1, Len(t) - 3)) + DecVal(SubSeq(t, Len(t) - 1, Len(t)))

\* the sum of the department's rates, in quarters
RECURSIVE QuarterSum(_)
QuarterSum(rs) == IF rs = <<>> THEN 0 ELSE Head(rs).rate.s * Head(rs).rate.m + QuarterSum(Tail(rs))

Abs(x) == IF x < 0 THEN -x ELSE x

\* C8: the mean-rate report has one line per distinct department, in
\* first-seen order, and the value on it is the sum of the department's rates
\* divided by their count, printed with exactly two decimal digits.
C8_MeanRatePerDepartment ==
  (Ended /\ report = "mean_rate_department") =>
    /\ Len(MeanRows) = Cardinality(Departments)
    /\ \A k \in 1..Len(MeanRows) :
         /\ Len(Cells(MeanRows[k])) = 2
         /\ strip(Cells(MeanRows[k])[1]) \in Departments
    /\ \A k1, k2 \in 1..Len(MeanRows) :
         k1 < k2 => FirstSeen(strip(Cells(MeanRows[k1])[1]))
                      < FirstSeen(strip(Cells(MeanRows[k2])[1]))
    /\ \A k \in 1..Len(MeanRows) :
         LET rs    == OfDept(strip(Cells(MeanRows[k])[1]))
             value == Cells(MeanRows[k])[2]
         IN  /\ TwoDecimals(value)
             /\ 2 * Abs(4 * Len(rs) * Hundredths(value) - 100 * QuarterSum(rs))
                  <= 4 * Len(rs)

\* the header line of the block that line k of the payout report belongs to
HeaderAbove(k) ==
  PayoutOut[CHOOSE h \in 1..k :
              /\ PayoutOut[h].site = "payout_header"
              /\ \A j \in (h + 1)..k : PayoutOut[j].site # "payout_header"]

\* C9: in every block of the payout report the header cell, the dashes and
\* every data cell of a column have the same length, the column's width.
C9_PayoutCellsHaveColumnWidth ==
  report = "payout" =>
    \A k \in 1..Len(PayoutOut) :
      PayoutOut[k].site \in {"payout_dashes", "payout_row"} =>
        /\ Len(Cells(PayoutOut[k])) = Len(Cells(HeaderAbove(k)))
        /\ \A c \in 1..Len(Cells(PayoutOut[k])) :
             Len(Cells(PayoutOut[k])[c]) = Len(Cells(HeaderAbove(k))[c])

\* line k of the file has the header's field count and a value in its hours
\* column or in a rate column that float() rejects
ParseFails(lines, k) ==
  LET header == split(strip(lines[1]), ",")
      row    == zipdict(header, split(strip(lines[k]), ","))
  IN  \E c \in ({col_hours_worked} \cup RATE_COLUMNS) \cap Range(header) :
        float(row[c]) = ValueError

DiagnosticNamesLine(l, lines) ==
  /\ l.n \in 2..Len(lines)
  /\ l.site = "skip_row" => Mismatched(lines, l.n)
  /\ l.site = "bad_row" => (~Mismatched(lines, l.n) /\ ParseFails(lines, l.n))

\* C10: every row diagnostic a load prints names the 1-based line of the file
\* (the header is line 1) that the diagnostic is about.
C10_DiagnosticsNameFileLine ==
  [][pc = "files" =>
       \A k \in (Len(stdout) + 1)..Len(stdout') :
         DiagnosticNamesLine(stdout'[k], LinesOf(files[i]))]_vars

====
